---- MODULE Spec2Model ----
(***************************************************************************)
(* vibe-rhythm: pitch detection (lib/audioUtils: noteFromPitch,            *)
(* getNoteDetails, autoCorrelate), the note-onset debounce in the render   *)
(* loop of components/NoteVisualizer and the microphone life cycle of      *)
(* hooks/useAudio.  The two versions of                                    *)
(* NoteVisualizer in the sources share the debounce step; the line numbers *)
(* in the comments are those of the later one.                             *)
(*                                                                         *)
(* Spec   : the render loop of NoteVisualizer, one Render per animation    *)
(*          frame, with the frequency returned by autoCorrelate as input.  *)
(* SpecAC : one call of autoCorrelate, statement by statement, on every    *)
(*          window of a bounded set.                                       *)
(* SpecAudio : the useAudio hook: calls of startListening and             *)
(*          stopListening, the settling of getUserMedia and the unmount.   *)
(*                                                                         *)
(* Units.  Frequencies handed to getNoteDetails are integers in hundredths *)
(* of a hertz (44000 = 440 Hz).  Samples of a window are integers in units *)
(* of 1/SampleUnit, all exactly representable in a Float32Array, so the    *)
(* comparisons against 0.01 and 0.2 are decided exactly as the code does.  *)
(* The value autoCorrelate returns is kept as the quotient sampleRate / T0 *)
(* with T0 a fraction in lowest terms.                                     *)
(***************************************************************************)
EXTENDS Integers, Sequences, FiniteSets, TLC

(***************************************************************************)
(* Bounds of the model                                                     *)
(***************************************************************************)
(* The longest window handed to autoCorrelate. *)
MaxLen == 5

(* Samples are multiples of 1/128: 1/128 is below the silence threshold 0.01
   and the trim threshold 0.2, 64/128 and 128/128 are above both. *)
SampleUnit == 128
Samples == {-128, 0, 1, 64, 128}
SampleRates == {44100}

(* Date.now() is followed up to this many milliseconds after the first frame. *)
MaxNow == 260

(* Date.now() advances from one frame to the next by one of these
   (milliseconds); the first frame may read the initial value. *)
Deltas == {0, 10, 50, 200}

(* The number of calls of startListening that are followed. *)
MaxStarts == 3

VARIABLES
  (* NoteVisualizer *)
  now,              \* render's local: Date.now() as read by the last frame
  frequency,        \* render's local: autoCorrelate's result for the last frame
  details,          \* render's local: getNoteDetails(frequency)
  lastNoteRef,      \* lastNoteRef.current
  lastNoteTimeRef,  \* lastNoteTimeRef.current
  onset,            \* the note the last frame pushed onto flyingNotesRef.current
  (* observers of the stream of onsets *)
  lastOnset,        \* full name and startTime of the last note pushed
  run,              \* the current run of windows detecting one in-range note
  scen              \* how much of the reference scenario the frames so far match

VARIABLES
  (* one call of autoCorrelate(buffer, sampleRate) *)
  pc,               \* the statement the call has reached
  window,           \* the argument buffer as passed in
  sampleRate,       \* the argument sampleRate
  buffer,           \* the local buffer (reassigned by the slice)
  SIZE,             \* the local SIZE
  rms,              \* the sum of squares accumulated in rms, in 1/SampleUnit^2
  r1, r2,           \* the trim indices
  c,                \* the autocorrelation array, in 1/SampleUnit^2
  d,                \* the lag of the first dip
  maxval, maxpos,   \* the running maximum of c and its lag
  T0,               \* the lag, a fraction n/d once refined
  result            \* the value returned

acvars == <<pc, window, sampleRate, buffer, SIZE, rms, r1, r2, c, d,
            maxval, maxpos, T0, result>>

vvars == <<now, frequency, details, lastNoteRef, lastNoteTimeRef,
           onset, lastOnset, run, scen>>

VARIABLES
  (* useAudio *)
  isListening,      \* the state isListening
  error,            \* the state error
  audioContextRef,  \* audioContextRef.current: null or the context's number
  analyserRef,      \* analyserRef.current: null or the number of its context
  streamRef,        \* streamRef.current: null or the stream's number
  sourceRef,        \* sourceRef.current: null or the number of its context
  streams,          \* the MediaStreams acquired so far: "live" or "stopped"
  contexts,         \* the AudioContexts created so far: "running" or "closed"
  sources,          \* the source node of each context: "connected" or "disconnected"
  pending,          \* calls of startListening waiting on getUserMedia
  starts,           \* calls of startListening made so far
  mounted,          \* the component using the hook is mounted
  stopRan           \* the last step ran stopListening

uavars == <<isListening, error, audioContextRef, analyserRef, streamRef,
            sourceRef, streams, contexts, sources, pending, starts, mounted,
            stopRan>>

(***************************************************************************)
(* JavaScript numbers: a finite value v, or NaN, or Infinity.  A read past  *)
(* the end of an array gives undefined, which arithmetic turns into NaN.   *)
(***************************************************************************)
Num(v) == [kind |-> "finite", v |-> v]
NaN == [kind |-> "NaN", v |-> 0]
Infinity == [kind |-> "Infinity", v |-> 0]
undefined == [kind |-> "undefined", v |-> 0]
IsFinite(x) == x.kind = "finite"

Abs(x) == IF x < 0 THEN -x ELSE x

(* JavaScript's % on integers: the remainder takes the sign of the dividend. *)
JsRem(a, m) == IF a >= 0 THEN a % m ELSE -((-a) % m)

(***************************************************************************)
(* lib/audioUtils: note arithmetic                                         *)
(***************************************************************************)
NOTE_STRINGS == <<"C", "C#", "D", "D#", "E", "F", "F#", "G", "G#", "A", "A#", "B">>

(* The reference pitch, 440 Hz, in hundredths of a hertz. *)
A4CentiHz == 44000

(* floor(1024 * 44000 * 2^((2j-1)/24)) for j = 1..12: the frequencies, in
   1/1024 of a centihertz, at which Math.round(12 * log2(f / 440)) steps from
   j-1 to j inside the octave that starts at 440 Hz.  The exact values are
   irrational, so an integer is above the boundary iff it is above its floor. *)
SemitoneSteps ==
  << 46376241, 49133916, 52055571, 55150956, 58430402, 61904855,
     65585909, 69485850, 73617694, 77995230, 82633068, 87546686 >>

RECURSIVE Pow2(_)
Pow2(n) == IF n = 0 THEN 1 ELSE 2 * Pow2(n - 1)

(* The octave o, relative to 440 Hz, with 440 * 2^o <= f < 440 * 2^(o+1). *)
RECURSIVE OctaveUp(_, _)
OctaveUp(f, o) == IF f >= A4CentiHz * Pow2(o + 1) THEN OctaveUp(f, o + 1) ELSE o
RECURSIVE OctaveDown(_, _)
OctaveDown(f, o) == IF f * Pow2(o) < A4CentiHz THEN OctaveDown(f, o + 1) ELSE -o
OctaveOf(f) == IF f >= A4CentiHz THEN OctaveUp(f, 0) ELSE OctaveDown(f, 1)

(* noteFromPitch: Math.round(12 * log2(frequency / 440)) + 69.  Math.log of a
   negative number is NaN; Math.round and + 69 keep NaN and Infinity. *)
noteFromPitch(freq) ==
  IF ~IsFinite(freq) THEN freq
  ELSE IF freq.v < 0 THEN NaN
  ELSE LET f == freq.v
           o == OctaveOf(f)
           scaled == IF o >= 0 THEN f * Pow2(10 - o)
                              ELSE f * Pow2(10) * Pow2(-o)
           semis == Cardinality({j \in 1..12 : scaled > SemitoneSteps[j]})
       IN  Num(12 * o + semis + 69)

(* NOTE_STRINGS[noteNum % 12] with JavaScript's %: Infinity % 12 is NaN, and an
   index that is NaN or outside 0..11 reads undefined. *)
NoteNameOf(noteNum) ==
  IF IsFinite(noteNum)
    THEN LET idx == JsRem(noteNum.v, 12)
         IN  IF idx \in 0..11 THEN NOTE_STRINGS[idx + 1] ELSE "undefined"
    ELSE "undefined"

(* Math.floor(noteNum / 12) - 1 *)
OctaveOfNote(noteNum) ==
  IF IsFinite(noteNum) THEN Num((noteNum.v \div 12) - 1) ELSE noteNum

getNoteDetails(freq) ==
  LET noteNum == noteFromPitch(freq)
  IN  [noteName |-> NoteNameOf(noteNum),
       octave   |-> OctaveOfNote(noteNum),
       noteNum  |-> noteNum]

(* `${noteName}${octave}` *)
NumberToString(x) == IF IsFinite(x) THEN ToString(x.v) ELSE x.kind
FullNote(det) == det.noteName \o NumberToString(det.octave)

(***************************************************************************)
(* lib/audioUtils: autoCorrelate                                           *)
(***************************************************************************)
One == [n |-> 1, d |-> 1]

RECURSIVE Gcd(_, _)
Gcd(a, b) == IF b = 0 THEN a ELSE Gcd(b, a % b)

(* The fraction p/q (q # 0) in lowest terms with a positive denominator. *)
Fraction(p, q) ==
  LET g == Gcd(Abs(p), Abs(q))
      sgn == IF q < 0 THEN -1 ELSE 1
  IN  [n |-> sgn * (p \div g), d |-> sgn * (q \div g)]

(* A number kept as the quotient of an integer by a fraction: of / by. *)
Quotient(of, by) == [of |-> of, by |-> by]

(* return -1 *)
MinusOne == Quotient(-1, One)

(* value === -1 *)
IsMinusOne(value) ==
  value.by.n # 0 /\ value.by.d = 1 /\ value.of = -value.by.n

(* value is neither Infinity nor NaN, and value > 0 *)
IsPositiveFinite(value) ==
  value.by.n # 0 /\ (value.of > 0 <=> value.by.n > 0) /\ value.of # 0

(* array[i], undefined outside 0 .. length-1 *)
At(array, i) == IF i >= 0 /\ i < Len(array) THEN Num(array[i + 1]) ELSE undefined

(* x > y: false when either side is undefined *)
Gt(x, y) == IsFinite(x) /\ IsFinite(y) /\ x.v > y.v

RECURSIVE SumSquares(_)
SumSquares(buf) ==
  IF buf = << >> THEN 0 ELSE Head(buf) * Head(buf) + SumSquares(Tail(buf))

(* Variant: the division by SIZE left out, rms = Math.sqrt(rms). *)
NotEnoughSignalNoMean(sumsq, size) ==
  10000 * sumsq < SampleUnit * SampleUnit

(* Math.sqrt(rms / SIZE) < 0.01, i.e. sumsq / (SampleUnit^2 * SIZE) < 1/10000;
   with SIZE = 0 the quotient is NaN and the test is false. *)
NotEnoughSignal(sumsq, size) ==
  size > 0 /\ 10000 * sumsq < SampleUnit * SampleUnit * size

(* Math.abs(sample) < thres, thres = 0.2 = 1/5 *)
BelowThres(sample) == 5 * Abs(sample) < SampleUnit

(* The first loop of the trim: r1 = the first i < SIZE/2 with a sample below
   thres, 0 when there is none. *)
TrimLeft(buf) ==
  LET hits == {i \in 0..(Len(buf) - 1) : 2 * i < Len(buf) /\ BelowThres(buf[i + 1])}
  IN  IF hits = {} THEN 0 ELSE CHOOSE i \in hits : \A j \in hits : i <= j

(* Variant: the second loop run over the whole window, i < SIZE. *)
TrimRightWholeWindow(buf) ==
  LET hits == {i \in 1..(Len(buf) - 1) : BelowThres(buf[Len(buf) - i + 1])}
  IN  IF hits = {} THEN Len(buf) - 1
      ELSE Len(buf) - (CHOOSE i \in hits : \A j \in hits : i <= j)

(* The second loop: r2 = SIZE - i for the first i in 1 .. < SIZE/2 with
   buffer[SIZE - i] below thres, SIZE - 1 when there is none. *)
TrimRight(buf) ==
  LET hits == {i \in 1..(Len(buf) - 1) : 2 * i < Len(buf) /\ BelowThres(buf[Len(buf) - i + 1])}
  IN  IF hits = {} THEN Len(buf) - 1
      ELSE Len(buf) - (CHOOSE i \in hits : \A j \in hits : i <= j)

(* Variant: the sample at index to kept, buffer.slice(from, to + 1). *)
SliceInclusive(buf, from, to) ==
  IF to + 1 <= from THEN << >>
  ELSE SubSeq(buf, from + 1, IF to + 1 > Len(buf) THEN Len(buf) ELSE to + 1)

(* buffer.slice(from, to): a negative index counts from the end, the range is
   clamped to the array and empty when to <= from. *)
Slice(buf, from, to) ==
  LET len == Len(buf)
      lo == IF from < 0 THEN (IF len + from < 0 THEN 0 ELSE len + from)
                        ELSE (IF from > len THEN len ELSE from)
      hi == IF to < 0 THEN (IF len + to < 0 THEN 0 ELSE len + to)
                      ELSE (IF to > len THEN len ELSE to)
  IN  IF hi <= lo THEN << >> ELSE SubSeq(buf, lo + 1, hi)

RECURSIVE LagSum(_, _, _)
LagSum(buf, i, j) ==
  IF j >= Len(buf) - i THEN 0
  ELSE buf[j + 1] * buf[j + i + 1] + LagSum(buf, i, j + 1)

(* c[i] = sum over j < SIZE - i of buffer[j] * buffer[j + i] *)
Correlation(buf) == [i \in 1..Len(buf) |-> LagSum(buf, i - 1, 0)]

(* for (i = d; i < SIZE; i++) if (c[i] > maxval) { maxval = c[i]; maxpos = i } *)
RECURSIVE MaxFrom(_, _, _)
MaxFrom(corr, i, best) ==
  IF i >= Len(corr) THEN best
  ELSE IF corr[i + 1] > best.maxval
    THEN MaxFrom(corr, i + 1, [maxval |-> corr[i + 1], maxpos |-> i])
    ELSE MaxFrom(corr, i + 1, best)

(* a = (x1 + x3 - 2 * x2) / 2, b = (x3 - x1) / 2, if (a) T0 = T0 - b / (2 * a):
   a is NaN (falsy) when a neighbour of c[T0] does not exist. *)
Refine(corr, pos) ==
  LET x1 == At(corr, pos - 1)
      x2 == At(corr, pos)
      x3 == At(corr, pos + 1)
      known == IsFinite(x1) /\ IsFinite(x2) /\ IsFinite(x3)
      twoA == x1.v + x3.v - 2 * x2.v
      twoB == x3.v - x1.v
  IN  IF known /\ twoA # 0
        THEN Fraction(2 * twoA * pos - twoB, 2 * twoA)
        ELSE Fraction(pos, 1)

InitAC ==
  /\ pc = "rms"
  /\ window \in UNION {[1..n -> Samples] : n \in 0..MaxLen}
  /\ sampleRate \in SampleRates
  /\ buffer = window
  /\ SIZE = Len(window)
  /\ rms = 0
  /\ r1 = 0 /\ r2 = 0
  /\ c = << >>
  /\ d = 0
  /\ maxval = 0 /\ maxpos = 0
  /\ T0 = One
  /\ result = Quotient(0, One)

(* lines 25-35: accumulate the squares, return -1 when rms < 0.01 *)
Rms ==
  /\ pc = "rms"
  /\ rms' = SumSquares(buffer)
  /\ IF NotEnoughSignal(rms', SIZE)
       THEN pc' = "done" /\ result' = MinusOne
       ELSE pc' = "trim" /\ UNCHANGED result
  /\ UNCHANGED <<window, sampleRate, buffer, SIZE, r1, r2, c, d, maxval, maxpos, T0>>
  /\ UNCHANGED <<vvars, uavars>>

(* lines 37-44: find r1 and r2, buffer = buffer.slice(r1, r2), SIZE = its length *)
Trim ==
  /\ pc = "trim"
  /\ r1' = TrimLeft(buffer)
  /\ r2' = TrimRight(buffer)
  /\ buffer' = Slice(buffer, r1', r2')
  /\ SIZE' = Len(buffer')
  /\ pc' = "correlate"
  /\ UNCHANGED <<window, sampleRate, rms, c, d, maxval, maxpos, T0, result>>
  /\ UNCHANGED <<vvars, uavars>>

(* lines 46-49 *)
Correlate ==
  /\ pc = "correlate"
  /\ c' = Correlation(buffer)
  /\ d' = 0
  /\ pc' = "dip"
  /\ UNCHANGED <<window, sampleRate, buffer, SIZE, rms, r1, r2, maxval, maxpos, T0, result>>
  /\ UNCHANGED <<vvars, uavars>>

(* line 51, one round of the loop: while (c[d] > c[d + 1]) d++ *)
DipAdvance ==
  /\ pc = "dip"
  /\ Gt(At(c, d), At(c, d + 1))
  /\ d' = d + 1
  /\ UNCHANGED <<pc, window, sampleRate, buffer, SIZE, rms, r1, r2, c,
                 maxval, maxpos, T0, result>>
  /\ UNCHANGED <<vvars, uavars>>

(* line 51, the loop's exit *)
DipFound ==
  /\ pc = "dip"
  /\ ~Gt(At(c, d), At(c, d + 1))
  /\ pc' = "max"
  /\ UNCHANGED <<window, sampleRate, buffer, SIZE, rms, r1, r2, c, d,
                 maxval, maxpos, T0, result>>
  /\ UNCHANGED <<vvars, uavars>>

(* lines 52-59: maxval = -1, maxpos = -1, the scan from d, T0 = maxpos *)
MaxScan ==
  /\ pc = "max"
  /\ LET best == MaxFrom(c, d, [maxval |-> -(SampleUnit * SampleUnit), maxpos |-> -1])
     IN  /\ maxval' = best.maxval
         /\ maxpos' = best.maxpos
         /\ T0' = Fraction(best.maxpos, 1)
  /\ pc' = "interpolate"
  /\ UNCHANGED <<window, sampleRate, buffer, SIZE, rms, r1, r2, c, d, result>>
  /\ UNCHANGED <<vvars, uavars>>

(* lines 61-66: the parabolic refinement and return sampleRate / T0 *)
Interpolate ==
  /\ pc = "interpolate"
  /\ T0' = Refine(c, maxpos)
  /\ result' = Quotient(sampleRate, T0')
  /\ pc' = "done"
  /\ UNCHANGED <<window, sampleRate, buffer, SIZE, rms, r1, r2, c, d, maxval, maxpos>>
  /\ UNCHANGED <<vvars, uavars>>

(***************************************************************************)
(* hooks/useAudio                                                          *)
(***************************************************************************)
(* A ref's null; streams and contexts are numbered from 1. *)
null == 0

(* The state error when it is null. *)
NoError == "null"

(* err.message of a rejection or of a throw inside the try block. *)
ErrorMessages == {"", "Permission denied"}

(* err.message || "Could not access microphone" *)
MessageOf(message) ==
  IF message = "" THEN "Could not access microphone" ELSE message

(* A state setter of the hook; React drops the update once the component is
   unmounted. *)
SetState(value, current) == IF mounted THEN value ELSE current

(* The state of the hook after the first render. *)
InitAudio ==
  /\ isListening = FALSE
  /\ error = NoError
  /\ audioContextRef = null
  /\ analyserRef = null
  /\ streamRef = null
  /\ sourceRef = null
  /\ streams = << >>
  /\ contexts = << >>
  /\ sources = << >>
  /\ pending = 0
  /\ starts = 0
  /\ mounted = TRUE
  /\ stopRan = FALSE

(* The body of stopListening, lines 20-33, run on refs holding source, stream
   and context, with strs, ctxs and srcs the resources that exist. *)
stopListening(source, stream, context, strs, ctxs, srcs) ==
  /\ sources' = IF source # null THEN [srcs EXCEPT ![source] = "disconnected"] ELSE srcs
  /\ sourceRef' = null
  /\ streams' = IF stream # null THEN [strs EXCEPT ![stream] = "stopped"] ELSE strs
  /\ streamRef' = null
  /\ contexts' = IF context # null THEN [ctxs EXCEPT ![context] = "closed"] ELSE ctxs
  /\ audioContextRef' = null
  /\ analyserRef' = null
  /\ isListening' = SetState(FALSE, isListening)
  /\ stopRan' = TRUE

(* A call of startListening up to its await: setError(null), then the request
   to getUserMedia is pending. *)
StartListening ==
  /\ mounted
  /\ starts < MaxStarts
  /\ starts' = starts + 1
  /\ error' = SetState(NoError, error)
  /\ pending' = pending + 1
  /\ stopRan' = FALSE
  /\ UNCHANGED <<isListening, audioContextRef, analyserRef, streamRef, sourceRef,
                 streams, contexts, sources, mounted>>
  /\ UNCHANGED <<vvars, acvars>>

(* getUserMedia resolves for one pending call, which runs lines 48-75: a new
   stream, a new context with its analyser and source, the four refs
   overwritten, setIsListening(true). *)
GetUserMediaResolves ==
  /\ pending > 0
  /\ pending' = pending - 1
  /\ streams' = Append(streams, "live")
  /\ streamRef' = Len(streams) + 1
  /\ contexts' = Append(contexts, "running")
  /\ audioContextRef' = Len(contexts) + 1
  /\ analyserRef' = Len(contexts) + 1
  /\ sources' = Append(sources, "connected")
  /\ sourceRef' = Len(contexts) + 1
  /\ isListening' = SetState(TRUE, isListening)
  /\ stopRan' = FALSE
  /\ UNCHANGED <<error, starts, mounted>>
  /\ UNCHANGED <<vvars, acvars>>

(* getUserMedia resolves and the AudioContext constructor of line 51 throws:
   streamRef holds the new stream, then the catch block runs setError and
   stopListening. *)
AudioContextThrows(message) ==
  /\ pending > 0
  /\ pending' = pending - 1
  /\ error' = SetState(MessageOf(message), error)
  /\ stopListening(sourceRef, Len(streams) + 1, audioContextRef,
                   Append(streams, "live"), contexts, sources)
  /\ UNCHANGED <<starts, mounted>>
  /\ UNCHANGED <<vvars, acvars>>

(* getUserMedia rejects for one pending call: the catch block runs setError
   and stopListening. *)
GetUserMediaRejects(message) ==
  /\ pending > 0
  /\ pending' = pending - 1
  /\ error' = SetState(MessageOf(message), error)
  /\ stopListening(sourceRef, streamRef, audioContextRef, streams, contexts, sources)
  /\ UNCHANGED <<starts, mounted>>
  /\ UNCHANGED <<vvars, acvars>>

(* A call of stopListening by the component. *)
StopListening ==
  /\ mounted
  /\ stopListening(sourceRef, streamRef, audioContextRef, streams, contexts, sources)
  /\ UNCHANGED <<error, pending, starts, mounted>>
  /\ UNCHANGED <<vvars, acvars>>

(* The cleanup of the effect, lines 84-88: stopListening on unmount. *)
Unmount ==
  /\ mounted
  /\ stopListening(sourceRef, streamRef, audioContextRef, streams, contexts, sources)
  /\ mounted' = FALSE
  /\ UNCHANGED <<error, pending, starts>>
  /\ UNCHANGED <<vvars, acvars>>

NextAudio ==
  \/ StartListening
  \/ GetUserMediaResolves
  \/ \E message \in ErrorMessages : AudioContextThrows(message)
  \/ \E message \in ErrorMessages : GetUserMediaRejects(message)
  \/ StopListening
  \/ Unmount

(***************************************************************************)
(* components/NoteVisualizer: the render loop                              *)
(***************************************************************************)
MIN_NOTE == 55
MAX_NOTE == 96
Cooldown == 200

(* autoCorrelate's "not enough signal" return value, -1 Hz. *)
NoPitch == Num(-100)

(* The value of render's locals in a frame that does not compute them. *)
NotComputed == [kind |-> "none", v |-> 0]
NoDetails == [noteName |-> "", octave |-> NotComputed, noteNum |-> NotComputed]

(* What autoCorrelate hands to render, in hundredths of a hertz: -1, notes
   inside the display range (G3, A4, B4, C7), just outside it (F#3, C#7), a
   frequency below note 0, a negative quotient and Infinity. *)
Frequencies ==
  { NoPitch, Num(19600), Num(44000), Num(49388), Num(209300),
    Num(18500), Num(221746), Num(772), Num(-4410000), Infinity }

(* frequency !== -1 *)
Detected(freq) == freq # NoPitch

(* Variant: || written for &&. *)
InRangeOr(noteNum) ==
  \/ noteNum.kind = "Infinity"
  \/ IsFinite(noteNum)

(* noteNum >= MIN_NOTE && noteNum <= MAX_NOTE; a comparison with NaN is false,
   Infinity passes the first test and fails the second. *)
InRange(noteNum) ==
  /\ IsFinite(noteNum)
  /\ noteNum.v >= MIN_NOTE
  /\ noteNum.v <= MAX_NOTE

(* Variant: the cooldown test written >= . *)
ShouldEmitGe(fullNote, last, t, lastTime) ==
  fullNote # last \/ t - lastTime >= Cooldown

(* Variant: the cooldown test left out. *)
ShouldEmitNameOnly(fullNote, last, t, lastTime) ==
  fullNote # last

(* fullNote !== lastNoteRef.current || now - lastNoteTimeRef.current > 200 *)
ShouldEmit(fullNote, last, t, lastTime) ==
  fullNote # last \/ t - lastTime > Cooldown

(* lastNoteRef.current = fullNote, inside the emitting branch only. *)
NoteAfter(emit, fullNote, last) == IF emit THEN fullNote ELSE last

(* Variant: the assignment placed after the if blocks, run on every frame. *)
TimeAfterEveryFrame(emit, t, lastTime) == t

(* lastNoteTimeRef.current = now, inside the emitting branch only. *)
TimeAfter(emit, t, lastTime) == IF emit THEN t ELSE lastTime

(* The object render pushes onto flyingNotesRef.current for an onset; the
   fields kept are those an onset event carries (id, position and colour belong
   to the drawing, as does the later ageing of the list). *)
FlyingNote(det, t) == [noteName |-> det.noteName, octave |-> det.octave, startTime |-> t]
NoOnset == [noteName |-> "", octave |-> NotComputed, startTime |-> 0]

NoRun == [note |-> "", start |-> 0, onsets |-> 0, firstEmitted |-> FALSE]

(* The reference scenario: Detected(440) at 0, 50 and 250 ms, Detected(493.88)
   at 260 ms. *)
Scenario ==
  << [f |-> Num(44000), t |-> 0],   [f |-> Num(44000), t |-> 50],
     [f |-> Num(44000), t |-> 250], [f |-> Num(49388), t |-> 260] >>

ScenAfter(s, f, t) ==
  IF s >= 0 /\ s < Len(Scenario) /\ Scenario[s + 1] = [f |-> f, t |-> t]
    THEN s + 1 ELSE -1

(* The observer of pushes: the full name and startTime of the note pushed. *)
OnsetAfter(pushed, previous) ==
  IF pushed # NoOnset
    THEN [name |-> FullNote(pushed), time |-> pushed.startTime]
    ELSE previous

RunAfter(r, inRange, fullNote, t, emit) ==
  IF ~inRange THEN NoRun
  ELSE IF r.note = fullNote
    THEN [r EXCEPT !.onsets = @ + (IF emit THEN 1 ELSE 0)]
    ELSE [note |-> fullNote, start |-> t,
          onsets |-> IF emit THEN 1 ELSE 0, firstEmitted |-> emit]

(* getNoteDetails on the frequencies of the model, evaluated once. *)
DetailsOf == [f \in Frequencies |-> getNoteDetails(f)]

(* The state of NoteVisualizer after mounting. *)
InitVisualizer ==
  /\ now = 0
  /\ frequency = NotComputed
  /\ details = NoDetails
  /\ lastNoteRef = ""
  /\ lastNoteTimeRef = 0
  /\ onset = NoOnset
  /\ lastOnset = [name |-> "", time |-> 0]
  /\ run = NoRun
  /\ scen = 0

(* No call of autoCorrelate is followed. *)
IdleAC ==
  /\ pc = "idle"
  /\ window = << >>
  /\ sampleRate = 0
  /\ buffer = << >>
  /\ SIZE = 0
  /\ rms = 0
  /\ r1 = 0 /\ r2 = 0
  /\ c = << >>
  /\ d = 0
  /\ maxval = 0 /\ maxpos = 0
  /\ T0 = One
  /\ result = Quotient(0, One)

Init == InitVisualizer /\ IdleAC /\ InitAudio

(* One frame with analyser === null, dt after the previous one: no window is
   read. *)
RenderIdle(dt) ==
  /\ now + dt <= MaxNow
  /\ now' = now + dt
  /\ frequency' = NotComputed
  /\ details' = NoDetails
  /\ onset' = NoOnset
  /\ scen' = -1
  /\ UNCHANGED <<lastNoteRef, lastNoteTimeRef, lastOnset, run>>
  /\ UNCHANGED <<acvars, uavars>>

(* One frame with an analyser, dt after the previous one: autoCorrelate
   returned freq for its window. *)
Render(freq, dt) ==
  /\ now + dt <= MaxNow
  /\ now' = now + dt
  /\ frequency' = freq
  /\ LET detected == Detected(freq)
         det      == IF detected THEN DetailsOf[freq] ELSE NoDetails
         fullNote == IF detected THEN FullNote(det) ELSE ""
         inRange  == detected /\ InRange(det.noteNum)
         emit     == inRange /\ ShouldEmit(fullNote, lastNoteRef, now', lastNoteTimeRef)
     IN  /\ details' = det
         /\ onset' = IF emit THEN FlyingNote(det, now') ELSE NoOnset
         /\ lastNoteRef' = NoteAfter(emit, fullNote, lastNoteRef)
         /\ lastNoteTimeRef' = TimeAfter(emit, now', lastNoteTimeRef)
         /\ lastOnset' = OnsetAfter(onset', lastOnset)
         /\ run' = RunAfter(run, inRange, fullNote, now', emit)
         /\ scen' = ScenAfter(scen, freq, now')
  /\ UNCHANGED <<acvars, uavars>>

Next ==
  \/ \E dt \in Deltas : RenderIdle(dt)
  \/ \E freq \in Frequencies, dt \in Deltas : Render(freq, dt)

vars == <<vvars, acvars, uavars>>

Spec == Init /\ [][Next]_vars

(* One call of autoCorrelate on each window of the model. *)
NextAC ==
  \/ Rms
  \/ Trim
  \/ Correlate
  \/ DipAdvance
  \/ DipFound
  \/ MaxScan
  \/ Interpolate

InitCall == InitAC /\ InitVisualizer /\ InitAudio

SpecAC == InitCall /\ [][NextAC]_vars

(* The hook from its first render on. *)
InitHook == InitAudio /\ InitVisualizer /\ IdleAC

SpecAudio == InitHook /\ [][NextAudio]_vars

(***************************************************************************)
(* Properties of the debounce step (Spec)                                  *)
(***************************************************************************)
(* The step is a frame that analysed a window (RenderIdle computes no
   frequency). *)
WindowStep == frequency' # NotComputed

IsDetectedInRange(freq, det) ==
  /\ freq \notin {NotComputed, NoPitch}
  /\ IsFinite(det.noteNum)
  /\ det.noteNum.v >= 55
  /\ det.noteNum.v <= 96

IsOutOfRange(freq, det) ==
  /\ freq \notin {NotComputed, NoPitch}
  /\ \/ det.noteNum.kind = "Infinity"
     \/ IsFinite(det.noteNum) /\ (det.noteNum.v < 55 \/ det.noteNum.v > 96)

(* C1: a window whose estimate is a detected pitch with note number in 55..96
   pushes an onset and sets lastNoteRef to the full name and lastNoteTimeRef to
   now iff the full name differs from lastNoteRef or now - lastNoteTimeRef is
   strictly greater than 200; otherwise it pushes nothing and leaves both refs
   unchanged. *)
C1_DebounceIff ==
  [][ (WindowStep /\ IsDetectedInRange(frequency', details')) =>
        IF FullNote(details') # lastNoteRef \/ now' - lastNoteTimeRef > 200
          THEN /\ onset' = [noteName  |-> details'.noteName,
                            octave    |-> details'.octave,
                            startTime |-> now']
               /\ lastNoteRef' = FullNote(details')
               /\ lastNoteTimeRef' = now'
          ELSE /\ onset' = NoOnset
               /\ UNCHANGED <<lastNoteRef, lastNoteTimeRef>> ]_vars

(* A same-name detection exactly 200 ms after the last emission was suppressed. *)
C1_Witness ==
  /\ IsDetectedInRange(frequency, details)
  /\ FullNote(details) = lastNoteRef
  /\ now - lastNoteTimeRef = 200
  /\ onset = NoOnset

(* C2: a window whose estimate is autoCorrelate's -1 pushes no onset and leaves
   lastNoteRef and lastNoteTimeRef as they were. *)
C2_SilenceKeepsState ==
  [][ (WindowStep /\ frequency' = NoPitch) =>
        /\ onset' = NoOnset
        /\ UNCHANGED <<lastNoteRef, lastNoteTimeRef>> ]_vars

(* A silence window was processed some time after an emission. *)
C2_Witness ==
  /\ frequency = NoPitch
  /\ lastNoteRef # ""
  /\ now > lastNoteTimeRef
  /\ lastOnset = [name |-> lastNoteRef, time |-> lastNoteTimeRef]

(* C3: a detected pitch whose note number is below 55 or above 96 pushes no
   onset and leaves both refs unchanged, whatever the debounce state and the
   time since the last emission; 55 and 96 are in range: detected with a name
   other than lastNoteRef they push an onset. *)
C3_OutOfRangeSilent ==
  [][ /\ (WindowStep /\ IsOutOfRange(frequency', details')) =>
           /\ onset' = NoOnset
           /\ UNCHANGED <<lastNoteRef, lastNoteTimeRef>>
      /\ ( /\ WindowStep
           /\ frequency' \notin {NotComputed, NoPitch}
           /\ details'.noteNum \in {Num(55), Num(96)}
           /\ FullNote(details') # lastNoteRef ) =>
           /\ onset' # NoOnset
           /\ lastNoteRef' = FullNote(details') ]_vars

(* Note 97 was detected more than 200 ms after the last emission, and ignored. *)
C3_Witness ==
  /\ details.noteNum = Num(97)
  /\ lastNoteRef # ""
  /\ now - lastNoteTimeRef > 200
  /\ onset = NoOnset

(* C4: in every reachable state the pair (lastNoteRef, lastNoteTimeRef) is the
   initial pair ("", 0) or the full name and startTime of the note pushed
   last. *)
C4_RefsAreLastOnset ==
  /\ lastNoteRef = lastOnset.name
  /\ lastNoteTimeRef = lastOnset.time

(* A detection was suppressed at a later time than the last emission and the
   refs still hold the emitted pair. *)
C4_Witness ==
  /\ IsDetectedInRange(frequency, details)
  /\ onset = NoOnset
  /\ now > lastNoteTimeRef
  /\ lastNoteRef # ""

(* C5: from the initial state, Detected(440) at 0 ms pushes A4, at 50 ms pushes
   nothing, at 250 ms pushes A4 again, and Detected(493.88) at 260 ms pushes
   B4; and whenever nothing has been emitted yet, an in-range detection
   pushes an onset. *)
C5_Scenario ==
  /\ [](/\ scen = 1 => onset = [noteName |-> "A", octave |-> Num(4), startTime |-> 0]
        /\ scen = 2 => onset = NoOnset
        /\ scen = 3 => onset = [noteName |-> "A", octave |-> Num(4), startTime |-> 250]
        /\ scen = 4 => onset = [noteName |-> "B", octave |-> Num(4), startTime |-> 260])
  /\ [][ (WindowStep /\ lastNoteRef = "" /\ IsDetectedInRange(frequency', details'))
           => onset' # NoOnset ]_vars

(* The whole scenario has been played. *)
C5_Witness == scen = 4 /\ lastNoteRef = "B4" /\ lastNoteTimeRef = 260

(* C6 as stated: a run of consecutive windows that all detect the same
   in-range full name has exactly one onset, however long it lasts. *)
C6_OneOnsetPerRun == run.note # "" => run.onsets = 1

(* C6, amended: a run whose first window pushes an onset has exactly one onset
   as long as its windows lie within 200 ms of the first; a run has a second
   onset only once more than 200 ms have passed since its first window. *)
C6_OneOnsetWithinCooldown ==
  /\ (run.note # "" /\ run.firstEmitted /\ now - run.start <= 200) => run.onsets = 1
  /\ (run.note # "" /\ run.onsets >= 2) => now - run.start > 200

(* A run of two windows or more that lasted exactly 200 ms, with one onset. *)
C6_Witness ==
  /\ run.note # "" /\ run.firstEmitted
  /\ IsDetectedInRange(frequency, details)
  /\ now - run.start = 200
  /\ onset = NoOnset
  /\ run.onsets = 1

(* C7: for every integer note number n, negative n included, getNoteDetails
   names the pitch class NOTE_STRINGS[n mod 12] with the mathematical modulo,
   always one of the 12 labels, and octave = floor(n / 12) - 1. *)
C7_NameIsALabel ==
  (frequency \notin {NotComputed, NoPitch} /\ IsFinite(details.noteNum)) =>
     /\ details.noteName = NOTE_STRINGS[(details.noteNum.v % 12) + 1]
     /\ details.octave = Num((details.noteNum.v \div 12) - 1)
     /\ (details.noteNum.v = 69 => details.noteName = "A" /\ details.octave = Num(4))

(***************************************************************************)
(* Properties of autoCorrelate (SpecAC)                                    *)
(***************************************************************************)
(* C8: autoCorrelate never returns a frequency computed from a lag T0 <= 0:
   every value returned is -1 or a finite positive frequency. *)
C8_ResultIsPitchOrSentinel ==
  pc = "done" => (IsMinusOne(result) \/ IsPositiveFinite(result))

(* C9: when the autocorrelation is strictly decreasing over the whole trimmed
   window (of two lags or more), so that no lag d with c[d] <= c[d+1] exists,
   the call returns -1. *)
C9_NoDipIsNoPitch ==
  ( /\ pc = "done"
    /\ Len(c) >= 2
    /\ \A i \in 1..(Len(c) - 1) : c[i] > c[i + 1] ) => IsMinusOne(result)

(* C10: a window (of one sample or more) whose root-mean-square amplitude is
   below 0.01, an all-zero window in particular, makes the call return -1
   straight from the gate: the buffer is not sliced and nothing is
   correlated. *)
C10_QuietWindowGated ==
  ( /\ pc # "rms"
    /\ Len(window) >= 1
    /\ 10000 * SumSquares(window) < 128 * 128 * Len(window) ) =>
      /\ pc = "done"
      /\ IsMinusOne(result)
      /\ buffer = window
      /\ c = << >>

(* A quiet window that is not all zero has been gated. *)
C10_Witness ==
  /\ pc = "done"
  /\ Len(window) >= 2
  /\ \E i \in 1..Len(window) : window[i] # 0
  /\ \E i \in 1..Len(window) : window[i] = 0
  /\ 10000 * SumSquares(window) < 128 * 128 * Len(window)
  /\ IsMinusOne(result)

(* The call went past the gate of line 34: its window was trimmed and
   correlated. *)
PastGate ==
  /\ pc \in {"correlate", "dip", "max", "interpolate", "done"}
  /\ ~(Len(window) >= 1 /\ 10000 * SumSquares(window) < 128 * 128 * Len(window))

(* |window[i]| < 0.2, i counted from 0 *)
IsSmall(i) == 5 * Abs(window[i + 1]) < 128

(* C11: whenever the trimmed sub-window that is correlated has fewer than 4
   samples (0 or 1 included), the call returns -1. *)
C11_ShortWindowIsNoPitch ==
  (pc = "done" /\ PastGate /\ Len(buffer) < 4) => IsMinusOne(result)

(* C12 as stated: the bounds are the first sample below 0.2 from the start
   within the first half and the first from the end within the last half, with
   the window's start and end as defaults, so that a window with no sample
   below 0.2 is correlated in full, its last sample included. *)
C12_UntrimmedWindowIsWhole ==
  (PastGate /\ \A i \in 0..(Len(window) - 1) : ~IsSmall(i)) => buffer = window

(* C12, amended: r1 is the index of the first sample below 0.2 among the
   indices i < SIZE/2, 0 when there is none; r2 is the highest index
   k > SIZE/2 with a sample below 0.2, SIZE - 1 when there is none; the
   sub-window correlated is the samples r1 .. r2 - 1: the right bound is
   exclusive, so a window with no sample below 0.2 loses its last sample. *)
C12_TrimBoundsRightExclusive ==
  LET n     == Len(window)
      left  == {i \in 0..(n - 1) : 2 * i < n /\ IsSmall(i)}
      right == {k \in 1..(n - 1) : 2 * (n - k) < n /\ IsSmall(k)}
  IN  PastGate =>
        /\ IF left = {} THEN r1 = 0
                        ELSE r1 \in left /\ \A i \in left : r1 <= i
        /\ IF right = {} THEN r2 = n - 1
                         ELSE r2 \in right /\ \A k \in right : k <= r2
        /\ Len(buffer) = (IF r2 > r1 THEN r2 - r1 ELSE 0)
        /\ \A j \in 1..Len(buffer) : buffer[j] = window[r1 + j]
        /\ ((\A i \in 0..(n - 1) : ~IsSmall(i)) /\ n >= 1) =>
              buffer = SubSeq(window, 1, n - 1)

(* A window of four loud samples was trimmed to its first three. *)
C12_Witness ==
  /\ pc = "correlate"
  /\ Len(window) = 4
  /\ \A i \in 0..3 : ~IsSmall(i)
  /\ r1 = 0 /\ r2 = 3
  /\ buffer = SubSeq(window, 1, 3)

(* C13: once the first dip d is found, the lag selected (maxpos, assigned to
   T0) lies in d .. N-1 and c is maximal there over that range, for every
   trimmed window of length N >= 1 and every sign of the values of c. *)
C13_LagIsArgmaxFromDip ==
  (pc = "interpolate" /\ Len(c) >= 1) =>
     /\ maxpos \in d..(Len(c) - 1)
     /\ T0 = [n |-> maxpos, d |-> 1]
     /\ \A i \in d..(Len(c) - 1) : c[i + 1] <= c[maxpos + 1]

(* C15: for a window of SIZE >= 2 samples that passes the gate,
   0 <= r1 < SIZE/2 <= r2 <= SIZE-1, hence r1 < r2, and the sub-window is not
   empty and lies inside the window. *)
C15_TrimIndicesOrdered ==
  (PastGate /\ Len(window) >= 2) =>
     /\ 0 <= r1
     /\ 2 * r1 < Len(window)
     /\ Len(window) <= 2 * r2
     /\ r2 <= Len(window) - 1
     /\ r1 < r2
     /\ buffer # << >>
     /\ Len(buffer) <= Len(window)
     /\ \A j \in 1..Len(buffer) : buffer[j] = window[r1 + j]

(* A window of five samples was trimmed on both sides. *)
C15_Witness ==
  /\ pc = "correlate"
  /\ Len(window) = 5
  /\ r1 = 1 /\ r2 = 3
  /\ Len(buffer) = 2

(***************************************************************************)
(* Properties of useAudio (SpecAudio)                                      *)
(***************************************************************************)
(* C14: for any interleaving of startListening and stopListening (a second
   startListening while the first awaits getUserMedia, a stopListening or an
   unmount while one is in flight), once stopListening has run and no
   startListening is in flight every stream acquired is stopped, every context
   created is closed, none is live and unreferenced, and isListening is
   false. *)
C14_StopReleasesEverything ==
  (stopRan /\ pending = 0) =>
     /\ \A s \in 1..Len(streams) : streams[s] = "stopped"
     /\ \A k \in 1..Len(contexts) : contexts[k] = "closed"
     /\ ~isListening

====
